---------------------------- MODULE Spec2Model ----------------------------
(***************************************************************************)
(* Model of the hand-gesture particle engine.                              *)
(*                                                                         *)
(* Two variants of the program are modelled, selected by `variant`:        *)
(*   "full"    : src/unnamed/part_000 (four templates, getGestureData)     *)
(*   "reduced" : src/main.js          (three templates, inline control)    *)
(*                                                                         *)
(* Fixed point.  All floats are integers in thousandths ("milli"), except  *)
(* angles, which are in hundredths of a radian ("crad").  sin and cos are  *)
(* Bhaskara's rational approximation, which is exact at 0, pi/6, pi/2 and  *)
(* keeps |sin| <= 1.  Wall-clock time is in milliseconds and advances in   *)
(* steps of Quantum.                                                       *)
(***************************************************************************)
EXTENDS Integers, Sequences, FiniteSets, TLC

\* ---------------------------------------------------------------- bounds
Quantum      == 3000   \* granularity of the wall clock, ms
MaxNow       == 13     \* the clock stops after MaxNow quanta
MaxFrames    == 5      \* ticks of the frame loop explored
NumParticles == 4      \* particleCount of the model
MaxFeedStep  == 32     \* SpecEval: the time uniform is fed 0, FeedStep, .., MaxFeedStep * FeedStep
FeedStep     == 200    \* SpecEval: spacing of the fed time values, ms

\* ------------------------------------------------------ program constants
TemplateCountFull    == 4      \* (templateID + 1) % 4
TemplateCountReduced == 3      \* (time / 4.0) % 3
SwitchIntervalMs     == 6000   \* Date.now() - lastSwitchTime > 6000
ReducedIntervalMs    == 4000   \* time / 4.0, time in seconds
ExpansionGainFull    == 3      \* 1.0 + expansionFactor * 3.0
ExpansionGainReduced == 2      \* 1.0 + uExpand * 2.0
TimeStep             == 10     \* uniforms.time.value += 0.01
CameraZFull          == 10000  \* camera.position.z = 10
CameraZReduced       == 15000  \* camera.position.z = 15
InitialExpansionFull == 500    \* let expansionFactor = 0.5

Variants == {"full", "reduced"}

\* ------------------------------------------------------------ fixed point
TwoPi  == 628            \* 6.283185307
Pi     == TwoPi \div 2
HalfPi == TwoPi \div 4

Abs(x) == IF x < 0 THEN 0 - x ELSE x

\* x / d rounded toward zero, as a float product or quotient would truncate
Quot(x, d) == IF x < 0 THEN 0 - ((0 - x) \div d) ELSE x \div d

\* a * b for two milli values
Mul(a, b) == Quot(a * b, 1000)

RECURSIVE SqrtSearch(_, _, _)
SqrtSearch(n, lo, hi) ==
    IF lo >= hi THEN lo
    ELSE LET mid == (lo + hi + 1) \div 2
         IN  IF mid * mid <= n THEN SqrtSearch(n, mid, hi)
                               ELSE SqrtSearch(n, lo, mid - 1)

\* floor(sqrt(n)) for 0 <= n < 2^31
ISqrt(n) == SqrtSearch(n, 0, 46340)

\* sin of an angle in crad, in milli
Sin(a) ==
    LET m == a % TwoPi
        x == IF m < Pi THEN m ELSE m - Pi
        p == x * (Pi - x)
        s == (16000 * p) \div (5 * Pi * Pi - 4 * p)
    IN  IF m < Pi THEN s ELSE 0 - s

\* cos of an angle in crad, in milli
Cos(a) == Sin(a + HalfPi)

\* pow(s, 3.0) of a milli value
Cube(s) == Mul(Mul(s, s), s)

\* ----------------------------------------------------------------- vectors
Vec(x, y, z) == [x |-> x, y |-> y, z |-> z, nan |-> FALSE]
ZeroVec == Vec(0, 0, 0)
\* a vector whose components are not finite
NaNVec  == [x |-> 0, y |-> 0, z |-> 0, nan |-> TRUE]

\* v * k, k in milli
VecScale(v, k) ==
    IF v.nan THEN NaNVec ELSE Vec(Mul(v.x, k), Mul(v.y, k), Mul(v.z, k))

\* length(v) in milli (computed on hundredths to stay within 32 bits)
VecLength(v) ==
    LET xc == Quot(v.x, 10)
        yc == Quot(v.y, 10)
        zc == Quot(v.z, 10)
    IN  10 * ISqrt(xc * xc + yc * yc + zc * zc)

\* normalize(vec3(0.0)) is undefined in GLSL: an implementation returns either
\* non-finite components (0 * inversesqrt(0)) or the zero vector.
NormalizeZeroOutcomes == {NaNVec, ZeroVec}

\* normalize(v); nz is what the implementation yields for the zero vector
Normalize(v, nz) ==
    LET len == ISqrt(v.x * v.x + v.y * v.y + v.z * v.z)
    IN  IF len = 0 THEN nz
        ELSE Vec(Quot(v.x * 1000, len), Quot(v.y * 1000, len), Quot(v.z * 1000, len))

\* -------------------------------------------------- shape function library
\* particleIndex / float(particleCount), in milli
NormalizedIndex(i) == (i * 1000) \div NumParticles

\* index * 6.283185307, in crad
AngleOf(index) == (index * TwoPi) \div 1000

heartShape(index) ==
    LET angle == AngleOf(index)
        x == 16 * Cube(Sin(angle))
        y == 13 * Cos(angle) - 5 * Cos(2 * angle) - 2 * Cos(3 * angle) - Cos(4 * angle)
    IN  VecScale(Vec(x, y, 0), 50)

flowerShape(index) ==
    LET angle == AngleOf(index)
        r == 1000 + Quot(Sin(angle * 5), 2)
        x == Mul(r, Cos(angle))
        y == Mul(r, Sin(angle))
        z == Quot(Cos(angle * 3), 2)
    IN  VecScale(Vec(x, y, z), 1500)

saturnShape(index, time) ==
    LET angle == AngleOf(index)
        radius == 2500
        x == Mul(radius, Cos(angle))
        y == Mul(radius, Sin(angle))
        z == Quot(Sin(Quot(time, 20) + index * 10), 10)
    IN  Vec(x, y, z)

fireworkShape(index, particleIndex, time, nz) ==
    LET explosionTime == (Quot(time, 5) + Quot(index, 100)) % 1000
        direction == Normalize(
            Vec(Mul(Sin(particleIndex * 123), Cos(particleIndex * 345)),
                Mul(Sin(particleIndex * 567), Cos(particleIndex * 789)),
                Mul(Sin(particleIndex * 901), Cos(particleIndex * 234))), nz)
        speed == 5000
        k == Mul(Mul(Mul(speed, explosionTime), 1000 - explosionTime), 10000)
    IN  VecScale(direction, k)

\* which branch of the reduced variant's getShape runs; id is the uTemplate uniform
getShapeBranch(id) ==
    IF 2 * id < 1 THEN "heart" ELSE IF 2 * id < 3 THEN "flower" ELSE "saturn"

\* getShape of the reduced variant
getShape(id, i) ==
    LET angle  == AngleOf(i)
        branch == getShapeBranch(id)
    IN  IF branch = "heart" THEN
            LET x == 16 * Cube(Sin(angle))
                y == 13 * Cos(angle) - 5 * Cos(2 * angle) - 2 * Cos(3 * angle) - Cos(4 * angle)
            IN  VecScale(Vec(x, y, 0), 400)
        ELSE IF branch = "flower" THEN
            LET r == 5000 + 2 * Sin(angle * 6)
            IN  Vec(Mul(r, Cos(angle)), Mul(r, Sin(angle)), Sin(i))
        ELSE
            LET r == 8000
            IN  Vec(Mul(r, Cos(angle)), Mul(Mul(r, Sin(angle)), 300), Mul(r, Sin(angle)))

\* ------------------------------------------------------ per-particle evaluator
\* mutant: the chain without its closing else
TemplateBranch_Open(templateId) ==
    IF 2 * templateId < 1 THEN "heart"
    ELSE IF 2 * templateId < 3 THEN "flower"
    ELSE IF 2 * templateId < 5 THEN "saturn"
    ELSE IF 2 * templateId < 7 THEN "firework"
    ELSE "none"

\* the template switching chain of the full vertex shader: the branch taken
TemplateBranch(templateId) ==
    IF 2 * templateId < 1 THEN "heart"
    ELSE IF 2 * templateId < 3 THEN "flower"
    ELSE IF 2 * templateId < 5 THEN "saturn"
    ELSE "firework"

\* `vec3 position = position;`: the attribute createParticles filled with
\* Math.random() * 10 - 5.  Every branch overwrites it.
positionAttribute(i) == ZeroVec

\* the position the taken branch assigns
ShapePosition(branch, u, i, nz) ==
    IF branch = "heart" THEN heartShape(NormalizedIndex(i))
    ELSE IF branch = "flower" THEN flowerShape(NormalizedIndex(i))
    ELSE IF branch = "saturn" THEN saturnShape(NormalizedIndex(i), u.time)
    ELSE IF branch = "firework" THEN fireworkShape(NormalizedIndex(i), i, u.time, nz)
    ELSE positionAttribute(i)

\* mutant: the firework branch scaled with a gain of its own
ExpandFull_PerTemplate(position, u) ==
    VecScale(position, 1000 + u.expansionFactor * (IF u.templateID = 3 THEN 1 ELSE ExpansionGainFull))

\* position *= (1.0 + expansionFactor * 3.0)
ExpandFull(position, u) == VecScale(position, 1000 + u.expansionFactor * ExpansionGainFull)

\* gl_PointSize = (10.0 - expansionFactor * 5.0) * (200.0 / length(mvPosition.xyz))
PointSizeFull(position, u) ==
    LET mv  == Vec(position.x, position.y, position.z - CameraZFull)
        len == VecLength(mv)
    IN  IF position.nan \/ len = 0 THEN [v |-> 0, nan |-> TRUE]
        ELSE [v |-> Mul(10000 - u.expansionFactor * 5, Quot(200000 * 1000, len)), nan |-> FALSE]

\* mix(a, b, w) per component
Mix(a, b, w) == Mul(a, 1000 - w) + Mul(b, w)

\* mutant: the firework weight without its + 0.5
MixWeight_Unbiased(u) ==
    IF u.templateID = 3 THEN Quot(Sin(Quot(u.time, 2)), 2)
    ELSE Quot(Sin(Quot(u.time, 10)), 5)

\* the mix weight of the full fragment shader
MixWeight(u) ==
    IF u.templateID = 3 THEN Quot(Sin(Quot(u.time, 2)), 2) + 500
    ELSE Quot(Sin(Quot(u.time, 10)), 5)

\* dynamicColor of the full fragment shader; vColor = customColor = (0.2, 0.4, 1.0)
FragmentColorFull(u) ==
    LET w == MixWeight(u)
    IN  IF u.templateID = 3
        THEN [r |-> Mix(200, 1000, w), g |-> Mix(400, 500, w), b |-> Mix(1000, 0, w)]
        ELSE [r |-> Mix(200, 1000, w), g |-> Mix(400, 0, w), b |-> Mix(1000, 0, w)]

\* one particle through the full variant's vertex and fragment shaders
VertexMainFull(u, i, nz) ==
    LET branch   == TemplateBranch(u.templateID)
        shapePos == ShapePosition(branch, u, i, nz)
        position == ExpandFull(shapePos, u)
    IN  [shape |-> branch, position |-> position,
         pointSize |-> PointSizeFull(position, u),
         color |-> FragmentColorFull(u), weight |-> MixWeight(u)]

\* one particle through the reduced variant's shaders
VertexMainReduced(u, i) ==
    LET shapePos  == getShape(u.templateID, NormalizedIndex(i))
        targetPos == VecScale(shapePos, 1000 + u.expansionFactor * ExpansionGainReduced)
        depth     == CameraZReduced - targetPos.z
    IN  [shape |-> getShapeBranch(u.templateID), position |-> targetPos,
         pointSize |-> IF depth = 0 THEN [v |-> 0, nan |-> TRUE]
                       ELSE [v |-> Quot(4000 * 100000, depth), nan |-> FALSE],
         color |-> [r |-> 500 + Quot(Sin(Quot(u.time + targetPos.x, 10)), 2), g |-> 700, b |-> 1000],
         weight |-> 0]

Particles == 0 .. (NumParticles - 1)

\* the point set a draw produces from the uniforms
Evaluate(v, u, nz) ==
    [i \in Particles |-> IF v = "full" THEN VertexMainFull(u, i, nz)
                                         ELSE VertexMainReduced(u, i)]

\* ------------------------------------------------------------ control loop
TemplateCount(v) == IF v = "full" THEN TemplateCountFull ELSE TemplateCountReduced

\* mutant: the advance without the wrap
TemplateAdvance_NoWrap(id) == id + 1

\* mutant: the advance steps by two
TemplateAdvance_Skip(id) == (id + 2) % TemplateCountFull

\* templateID = (templateID + 1) % 4
TemplateAdvance(id) == (id + 1) % TemplateCountFull

\* mutant: the interval test without the interval
SwitchDue_Always(clock, last) == clock - last > 0

\* Date.now() - lastSwitchTime > 6000
SwitchDue(clock, last) == clock - last > SwitchIntervalMs

\* expansionFactor = 0.3 + pulse * 0.7, pulse = sin(t * 1.5) * 0.5 + 0.5, t = clock / 1000
PulseExpansion(clock) ==
    LET pulse == Quot(Sin((clock * 15) \div 100), 2) + 500
    IN  300 + Mul(pulse, 700)

\* mutant: time kept small by wrapping it
NextTime_Wrap(time) == (time + TimeStep) % (3 * TimeStep)

\* uniforms.time.value += 0.01
NextTime(time) == time + TimeStep

\* Math.floor((time / 4.0) % 3), time = performance.now() * 0.001
ReducedTemplate(clock) ==
    (clock % (ReducedIntervalMs * TemplateCountReduced)) \div ReducedIntervalMs

\* Math.abs(Math.sin(time))
ReducedExpansion(clock) == Abs(Sin(clock \div 10))

\* --------------------------------------------------------------- the state
VARIABLES
    variant,          \* which program runs
    now,              \* the clock: Date.now() / performance.now(), ms since load
    pc,               \* position of the running animate(), "load" or "idle" when none runs
    pending,          \* animate callbacks registered with requestAnimationFrame
    active,           \* executions of animate on the call stack
    t,                \* the clock value the control loop read in this tick
    templateID,       \* global templateID
    expansionFactor,  \* global expansionFactor
    lastSwitchTime,   \* global lastSwitchTime
    uniforms,         \* material.uniforms: time, templateID, expansionFactor
    rendered,         \* the points of the last draw, <<>> before the first
    frames,           \* ticks begun
    recent,           \* history: templateID at load and after each of the last switches
    tickWrites,       \* history: writes of the uniforms in the current tick
    tickSwitches,     \* history: template switches in the current tick
    prevChange        \* history: clock at the last template switch, -1 before the first

vars == <<variant, now, pc, pending, active, t, templateID, expansionFactor,
          lastSwitchTime, uniforms, rendered, frames, recent, tickWrites,
          tickSwitches, prevChange>>

control == <<templateID, expansionFactor, lastSwitchTime>>
history == <<recent, tickWrites, tickSwitches, prevChange>>

InitialUniforms(v) ==
    [time |-> 0, templateID |-> 0,
     expansionFactor |-> IF v = "full" THEN InitialExpansionFull ELSE 0]

Init ==
    /\ variant \in Variants
    /\ now = 0
    /\ pc = "load"
    /\ pending = 0
    /\ active = 0
    /\ t = 0
    /\ templateID = 0
    /\ expansionFactor = IF variant = "full" THEN InitialExpansionFull ELSE 0
    /\ lastSwitchTime = 0
    /\ uniforms = InitialUniforms(variant)
    /\ rendered = <<>>
    /\ frames = 0
    /\ recent = <<0>>
    /\ tickWrites = 0
    /\ tickSwitches = 0
    /\ prevChange = -1

\* the wall clock moves on; it may do so between any two steps
Advance ==
    /\ now < MaxNow * Quantum
    /\ now' = now + Quantum
    /\ UNCHANGED <<variant, pc, pending, active, t, control, uniforms, rendered,
                   frames, history>>

\* a tick begins: animate is entered
BeginTick ==
    /\ active' = active + 1
    /\ pc' = "rAF"
    /\ frames' = frames + 1
    /\ tickWrites' = 0
    /\ tickSwitches' = 0

\* init() / the script calls animate() once
Start ==
    /\ pc = "load"
    /\ BeginTick
    /\ UNCHANGED <<variant, now, pending, t, control, uniforms, rendered, recent, prevChange>>

\* the browser runs a registered callback; handlers run to completion, so only
\* when no handler is running
Frame ==
    /\ pc = "idle"
    /\ pending > 0
    /\ frames < MaxFrames
    /\ pending' = pending - 1
    /\ BeginTick
    /\ UNCHANGED <<variant, now, t, control, uniforms, rendered, recent, prevChange>>

\* mutant: animate calls itself instead of registering itself
RequestFrame_Reenter ==
    /\ pc = "rAF"
    /\ active < 3
    /\ active' = active + 1
    /\ pc' = "rAF"
    /\ UNCHANGED <<variant, now, pending, t, control, uniforms, rendered, frames, history>>

\* requestAnimationFrame(animate), the first statement of animate
RequestFrame ==
    /\ pc = "rAF"
    /\ pending' = pending + 1
    /\ pc' = IF variant = "full" THEN "pulse" ELSE "control"
    /\ UNCHANGED <<variant, now, active, t, control, uniforms, rendered, frames, history>>

\* getGestureData, part 1: the simulated pinch distance
GesturePulse ==
    /\ pc = "pulse"
    /\ t' = now
    /\ expansionFactor' = PulseExpansion(now)
    /\ pc' = "check"
    /\ UNCHANGED <<variant, now, pending, active, templateID, lastSwitchTime, uniforms,
                   rendered, frames, history>>

\* getGestureData, part 2: the test of the switch interval
GestureCheck ==
    /\ pc = "check"
    /\ pc' = IF SwitchDue(now, lastSwitchTime) THEN "switch" ELSE "uniforms"
    /\ UNCHANGED <<variant, now, pending, active, t, control, uniforms, rendered,
                   frames, history>>

\* getGestureData, part 2: the switch
GestureSwitch ==
    /\ pc = "switch"
    /\ templateID' = TemplateAdvance(templateID)
    /\ lastSwitchTime' = now
    /\ pc' = "uniforms"
    /\ recent' = IF Len(recent) > TemplateCountFull
                 THEN Append(Tail(recent), templateID')
                 ELSE Append(recent, templateID')
    /\ tickSwitches' = tickSwitches + 1
    /\ prevChange' = now
    /\ UNCHANGED <<variant, now, pending, active, t, expansionFactor, uniforms, rendered,
                   frames, tickWrites>>

\* mutant: the copy of expansionFactor is missing
UpdateUniforms_StaleExpansion ==
    /\ pc = "uniforms"
    /\ uniforms' = [time |-> NextTime(uniforms.time),
                    expansionFactor |-> uniforms.expansionFactor,
                    templateID |-> templateID]
    /\ tickWrites' = tickWrites + 1
    /\ pc' = "render"
    /\ UNCHANGED <<variant, now, pending, active, t, control, rendered, frames,
                   recent, tickSwitches, prevChange>>

\* animate, step 2 of the full variant: the globals are copied into the uniforms
UpdateUniforms ==
    /\ pc = "uniforms"
    /\ uniforms' = [time |-> NextTime(uniforms.time),
                    expansionFactor |-> expansionFactor,
                    templateID |-> templateID]
    /\ tickWrites' = tickWrites + 1
    /\ pc' = "render"
    /\ UNCHANGED <<variant, now, pending, active, t, control, rendered, frames,
                   recent, tickSwitches, prevChange>>

\* animate of the reduced variant: the uniforms are computed from the clock
ControlReduced ==
    /\ pc = "control"
    /\ t' = now
    /\ uniforms' = [time |-> now,
                    expansionFactor |-> ReducedExpansion(now),
                    templateID |-> ReducedTemplate(now)]
    /\ tickWrites' = tickWrites + 1
    /\ pc' = "render"
    /\ UNCHANGED <<variant, now, pending, active, control, rendered, frames,
                   recent, tickSwitches, prevChange>>

\* renderer.render(scene, camera): every particle is evaluated from the uniforms;
\* animate returns
Render ==
    /\ pc = "render"
    /\ \E nz \in NormalizeZeroOutcomes : rendered' = Evaluate(variant, uniforms, nz)
    /\ pc' = "idle"
    /\ active' = active - 1
    /\ UNCHANGED <<variant, now, pending, t, control, uniforms, frames, history>>

Next ==
    \/ Advance
    \/ Start
    \/ Frame
    \/ RequestFrame
    \/ GesturePulse
    \/ GestureCheck
    \/ GestureSwitch
    \/ UpdateUniforms
    \/ ControlReduced
    \/ Render

Spec == Init /\ [][Next]_vars

\* ------------------------------------------- the evaluator on arbitrary input
\* SpecEval: one tick whose signal source is arbitrary.  The values the signal
\* source hands over (expansion, template id) and the accumulated time are
\* drawn from sets that include out-of-range values; the program's own copy
\* into the uniforms and its draw then run.
FeedExpansions == {-300, 0, 300, 500, 1000, 1500}
FeedTemplates  == (0 - 1) .. (TemplateCountFull + 1)
FeedTimes      == {k * FeedStep : k \in 0 .. MaxFeedStep}

InitEval ==
    /\ variant \in Variants
    /\ now = 0
    /\ pending = 1
    /\ active = 1
    /\ t = 0
    /\ lastSwitchTime = 0
    /\ rendered = <<>>
    /\ frames = 1
    /\ recent = <<0>>
    /\ tickSwitches = 0
    /\ prevChange = -1
    /\ \E e \in FeedExpansions, id \in FeedTemplates, tm \in FeedTimes :
          IF variant = "full"
          THEN /\ expansionFactor = e
               /\ templateID = id
               /\ uniforms = [InitialUniforms(variant) EXCEPT !.time = tm]
               /\ tickWrites = 0
               /\ pc = "uniforms"
          ELSE /\ expansionFactor = 0
               /\ templateID = 0
               /\ uniforms = [time |-> tm, templateID |-> id, expansionFactor |-> e]
               /\ tickWrites = 1
               /\ pc = "render"

NextEval ==
    \/ UpdateUniforms
    \/ Render

SpecEval == InitEval /\ [][NextEval]_vars

\* ------------------------------------------------------------------- claims
Body == {"rAF", "pulse", "check", "switch", "uniforms", "control", "render"}
Drawn == pc = "idle" /\ rendered # <<>>
ShapesOf(v) == IF v = "full" THEN {"heart", "flower", "saturn", "firework"}
                             ELSE {"heart", "flower", "saturn"}
LastShape(v) == IF v = "full" THEN "firework" ELSE "saturn"
Gain(v) == IF v = "full" THEN ExpansionGainFull ELSE ExpansionGainReduced
Clamp01(e) == IF e < 0 THEN 0 ELSE IF e > 1000 THEN 1000 ELSE e

\* C1: in every state of the frame loop the template id handed to the
\* evaluator (the uniform, and the global it is copied from) is an integer in
\* 0 .. templateCount - 1: {0,1,2,3} in the full variant, {0,1,2} in the reduced.
C1_TemplateInRange ==
    /\ uniforms.templateID \in 0 .. (TemplateCount(variant) - 1)
    /\ variant = "full" => templateID \in 0 .. (TemplateCountFull - 1)

\* C1 witness: after three switches the largest template id of the full
\* variant is in the uniform when the draw starts.
C1_Witness ==
    /\ variant = "full"
    /\ pc = "render"
    /\ uniforms.templateID = TemplateCountFull - 1
    /\ frames >= 3

\* C2: the selector returns to a value after exactly templateCount advances and
\* not sooner.  Full variant: any two entries of the history of the selector's
\* values are equal exactly when they are templateCount advances apart.
\* Reduced variant: the selector of the time k switch intervals later equals
\* the current one exactly when k = templateCount.
C2_CyclicSelector ==
    /\ variant = "full" =>
          \A i, j \in 1 .. Len(recent) :
              i < j => ((recent[i] = recent[j]) <=> (j - i = TemplateCountFull))
    /\ variant = "reduced" =>
          \A k \in 1 .. TemplateCountReduced :
              (ReducedTemplate(uniforms.time + k * ReducedIntervalMs) = uniforms.templateID)
                  <=> (k = TemplateCountReduced)

\* C2 witness: four advances have happened and the selector is back at the
\* value it had before them.
C2_Witness ==
    /\ variant = "full"
    /\ Len(recent) = TemplateCountFull + 1
    /\ recent[1] = recent[TemplateCountFull + 1]
    /\ templateID = recent[1]

\* C3 (as claimed): the evaluator uses the expansion clamped to [0,1]: what is
\* drawn from a fed expansion equals what is drawn from the clamped value.
C3_ClampedBeforeUse ==
    Drawn => \E nz \in NormalizeZeroOutcomes :
        rendered = Evaluate(variant,
                            [uniforms EXCEPT !.expansionFactor = Clamp01(@)], nz)

\* C4: for every template id, in or out of the known set, the dispatch runs
\* exactly one defined shape function: a negative id the first one, an id at
\* or above templateCount the last one.
C4_DispatchTotal ==
    Drawn => \A i \in Particles :
        /\ rendered[i].shape \in ShapesOf(variant)
        /\ uniforms.templateID < 0 => rendered[i].shape = "heart"
        /\ uniforms.templateID >= TemplateCount(variant) => rendered[i].shape = LastShape(variant)

\* C4 witness: a draw with a template id above the known set ran the last shape.
C4_Witness ==
    /\ Drawn
    /\ variant = "full"
    /\ uniforms.templateID = TemplateCountFull + 1
    /\ rendered[1].shape = "firework"

\* C5: the time pushed to the evaluator never decreases from one step to the
\* next.
C5_TimeMonotone == [][uniforms'.time >= uniforms.time]_vars

\* C5 witness: the time uniform has been pushed in three ticks of the full
\* variant.
C5_Witness ==
    /\ variant = "full"
    /\ frames = 3
    /\ pc = "idle"
    /\ uniforms.time = 3 * TimeStep

\* C6: in each tick the uniforms are written once, before the draw; what is
\* drawn is evaluated from the values the control loop produced in that tick,
\* and the uniforms are not written again before the tick ends.
C6_WriteOnceBeforeDraw ==
    /\ tickWrites <= 1
    /\ pc \in {"render", "idle"} =>
          /\ tickWrites = 1
          /\ IF variant = "full"
             THEN /\ uniforms.expansionFactor = PulseExpansion(t)
                  /\ uniforms.expansionFactor = expansionFactor
                  /\ uniforms.templateID = templateID
             ELSE uniforms = [time |-> t,
                              expansionFactor |-> ReducedExpansion(t),
                              templateID |-> ReducedTemplate(t)]
    /\ pc = "idle" =>
          \E nz \in NormalizeZeroOutcomes : rendered = Evaluate(variant, uniforms, nz)

\* C6 witness: a tick that switched the template has drawn the new shape.
C6_Witness ==
    /\ variant = "full"
    /\ pc = "idle"
    /\ tickSwitches = 1
    /\ frames >= 2
    /\ rendered[0].shape = "flower"

\* C7 (as claimed): no callback is pending while a tick's body is incomplete,
\* and executions of animate never overlap.
C7_NothingPendingInBody ==
    /\ pc \in Body => pending = 0
    /\ active <= 1

\* C7 (amended): the callback of the next tick is registered by the first
\* statement of the tick and stays pending while the body runs; at most one is
\* pending, at most one execution of animate is on the stack, and one is on
\* the stack exactly while a body is incomplete.
C7_NoOverlap ==
    /\ active <= 1
    /\ pending <= 1
    /\ (active = 1) <=> (pc \in Body)
    /\ pc \in Body \ {"rAF"} => pending = 1

\* C7 witness: in a later tick the body is at its draw with the next callback
\* pending.
C7_Witness ==
    /\ frames >= 2
    /\ pc = "render"
    /\ pending = 1
    /\ active = 1

\* C8: the final position of every particle is its shape position times
\* 1 + expansion * gain, whatever the template, the particle and the time; the
\* factor is exactly 1 at expansion 0.
C8_UniformExpansion ==
    Drawn => \A i \in Particles : \E nz \in NormalizeZeroOutcomes :
        LET shapePos == IF variant = "full"
                        THEN ShapePosition(rendered[i].shape, uniforms, i, nz)
                        ELSE getShape(uniforms.templateID, NormalizedIndex(i))
        IN  /\ rendered[i].position =
                   VecScale(shapePos, 1000 + uniforms.expansionFactor * Gain(variant))
            /\ uniforms.expansionFactor = 0 => rendered[i].position = shapePos

\* C8 witness: a draw of the firework at expansion 1 put a particle at four
\* times its shape position.
C8_Witness ==
    /\ Drawn
    /\ variant = "full"
    /\ uniforms.templateID = 3
    /\ uniforms.expansionFactor = 1000
    /\ ~rendered[1].position.nan
    /\ rendered[1].position = VecScale(fireworkShape(NormalizedIndex(1), 1, uniforms.time, ZeroVec), 4000)
    /\ rendered[1].position # ZeroVec

\* C9 (as claimed): the mix weight lies in [0,1] for every template.
C9_WeightInUnitInterval ==
    (Drawn /\ variant = "full") => \A i \in Particles : rendered[i].weight \in 0 .. 1000

\* C9 (amended): the weight of the Firework template is 0.5 + 0.5 sin(5 time)
\* and lies in [0,1]; the weight of the other templates is 0.2 sin(time) and
\* lies in [-0.2, 0.2].
C9_WeightBounds ==
    (Drawn /\ variant = "full") => \A i \in Particles :
        IF uniforms.templateID = 3
        THEN rendered[i].weight \in 0 .. 1000
        ELSE rendered[i].weight \in (0 - 200) .. 200

\* C9 witness: a firework draw near the top of its weight.
C9_Witness ==
    /\ Drawn
    /\ variant = "full"
    /\ uniforms.templateID = 3
    /\ rendered[0].weight >= 900

\* C10: in the full variant the selector changes by one step, at most once per
\* tick, and only when more than 6000 ms have passed since lastSwitchTime;
\* every change sets lastSwitchTime to the clock, so two changes are more than
\* 6000 ms apart, however long the loop stalled.
C10_SwitchRateLimited ==
    /\ [](tickSwitches <= 1)
    /\ [][templateID' # templateID =>
            /\ templateID' = (templateID + 1) % TemplateCountFull
            /\ now - lastSwitchTime > SwitchIntervalMs
            /\ lastSwitchTime' = now
            /\ tickSwitches = 0
            /\ prevChange >= 0 => now - prevChange > SwitchIntervalMs]_vars

\* C10 witness: the loop stalled for more than two intervals after its first
\* tick, and the next tick advanced the selector once.
C10_Witness ==
    /\ variant = "full"
    /\ pc = "idle"
    /\ frames = 2
    /\ templateID = 1
    /\ tickSwitches = 1
    /\ lastSwitchTime > 2 * SwitchIntervalMs

=============================================================================
